---- MODULE Spec2Model ----
(***************************************************************************)
(* A model of geomorph's zone/band classification (Utm::from_coord), the   *)
(* MGRS encoder (impl fmt::Display for Mgrs) and the MGRS decoder          *)
(* (mgrs::from_string).                                                    *)
(*                                                                         *)
(* Number representation.  The program computes in f64.  The model keeps   *)
(* exact values:                                                           *)
(*  - an angle in degrees is an integer numerator over the denominator Den *)
(*    (lat = 17 with Den = 2 is 8.5 degrees);                              *)
(*  - a length in metres is a record [sq, m, um] that stands for           *)
(*    sq * 100000 m + m metres + um micrometres, 0 <= m < 100000 and       *)
(*    0 <= um < 1000000: the micrometre counts the encoder works with (up  *)
(*    to 10^13) are past the 32-bit integers of TLC;                       *)
(*  - a character is a one-character string, Ord gives its code point.     *)
(***************************************************************************)
EXTENDS Integers, Sequences, FiniteSets, TLC

VARIABLES pc, coord, utm, prec, invlat, mgrs, inp, res, call

vars == <<pc, coord, utm, prec, invlat, mgrs, inp, res, call>>

(***************************************************************************)
(* Bounds of the model.                                                    *)
(***************************************************************************)
\* angles are multiples of 1/Den degree
Den == 2
\* Utm inputs of the encoder have 0 <= easting < (MaxSq + 1) * 100 km
MaxSq == 9
\* Utm inputs of the encoder have 0 <= northing < (MaxRowSq + 1) * 100 km
MaxRowSq == 21
\* longest input string of the short-input slice of the decoder
MaxLen == 5
\* most spaces put into an input string of the decoder
MaxSpaces == 3
\* the loops of the decoder are followed for at most StepCap iterations
StepCap == 60
\* the arguments of math::fmod on its own are within -MaxFmod..MaxFmod
MaxFmod == 6
\* the angles given to math::angle_normalize are within -MaxAngle..MaxAngle
\* degrees
MaxAngle == 720
\* the 100 km row indices yh given to the row letter are within 0..MaxYh
MaxYh == 45

(***************************************************************************)
(* Arithmetic helpers: f64::trunc of a quotient a / b, b # 0, and         *)
(* f64::floor of a quotient a / b, b > 0.                                  *)
(***************************************************************************)
Abs(a) == IF a >= 0 THEN a ELSE -a

Trunc(a, b) ==
  LET q == Abs(a) \div Abs(b)
  IN  IF (a < 0) # (b < 0) THEN -q ELSE q

Floor(a, b) == a \div b

Min(a, b) == IF a <= b THEN a ELSE b

Max(a, b) == IF a >= b THEN a ELSE b

RECURSIVE Pow10(_)
Pow10(n) == IF n = 0 THEN 1 ELSE 10 * Pow10(n - 1)

(***************************************************************************)
(* Characters.                                                             *)
(***************************************************************************)
Digits == <<"0", "1", "2", "3", "4", "5", "6", "7", "8", "9">>

Upper == <<"A", "B", "C", "D", "E", "F", "G", "H", "I", "J", "K", "L", "M",
           "N", "O", "P", "Q", "R", "S", "T", "U", "V", "W", "X", "Y", "Z">>

Lower == <<"a", "b", "c", "d", "e", "f", "g", "h", "i", "j", "k", "l", "m",
           "n", "o", "p", "q", "r", "s", "t", "u", "v", "w", "x", "y", "z">>

IndexOf(s, c) == CHOOSE i \in 1..Len(s) : s[i] = c

IsDigit(c) == \E i \in 1..Len(Digits) : Digits[i] = c

IsUpper(c) == \E i \in 1..Len(Upper) : Upper[i] = c

IsLower(c) == \E i \in 1..Len(Lower) : Lower[i] = c

\* the code point of a character (c as u8) for the characters of the model:
\* space, the digits, the letters and "[", the character after "Z"
Ord(c) ==
  IF IsDigit(c) THEN 47 + IndexOf(Digits, c)
  ELSE IF IsUpper(c) THEN 64 + IndexOf(Upper, c)
  ELSE IF IsLower(c) THEN 96 + IndexOf(Lower, c)
  ELSE IF c = "[" THEN 91
  ELSE 32

(***************************************************************************)
(* math::fmod.  a and b are numerators over the denominator d; the result  *)
(* is a numerator over d too.  The code truncates the remainder to a whole *)
(* number.                                                                 *)
(***************************************************************************)
fmod(a, b, d) == Trunc(a - b * Trunc(a, b), d) * d

(***************************************************************************)
(* Utm::from_coord: band, hemisphere, polar flag and zone.                 *)
(***************************************************************************)
\* band_of_lat with the equator put in the southern band "M"
band_of_lat_mut(lat) ==
  IF lat < -72 * Den THEN "C"
  ELSE IF lat < -64 * Den THEN "D"
  ELSE IF lat < -56 * Den THEN "E"
  ELSE IF lat < -48 * Den THEN "F"
  ELSE IF lat < -40 * Den THEN "G"
  ELSE IF lat < -32 * Den THEN "H"
  ELSE IF lat < -24 * Den THEN "J"
  ELSE IF lat < -16 * Den THEN "K"
  ELSE IF lat < -8 * Den THEN "L"
  ELSE IF lat <= 0 THEN "M"
  ELSE IF lat < 8 * Den THEN "N"
  ELSE IF lat < 16 * Den THEN "P"
  ELSE IF lat < 24 * Den THEN "Q"
  ELSE IF lat < 32 * Den THEN "R"
  ELSE IF lat < 40 * Den THEN "S"
  ELSE IF lat < 48 * Den THEN "T"
  ELSE IF lat < 56 * Den THEN "U"
  ELSE IF lat < 64 * Den THEN "V"
  ELSE IF lat < 72 * Den THEN "W"
  ELSE "X"

\* utm.rs 120-139: the if / else-if chain that picks the band letter
band_of_lat(lat) ==
  IF lat < -72 * Den THEN "C"
  ELSE IF lat < -64 * Den THEN "D"
  ELSE IF lat < -56 * Den THEN "E"
  ELSE IF lat < -48 * Den THEN "F"
  ELSE IF lat < -40 * Den THEN "G"
  ELSE IF lat < -32 * Den THEN "H"
  ELSE IF lat < -24 * Den THEN "J"
  ELSE IF lat < -16 * Den THEN "K"
  ELSE IF lat < -8 * Den THEN "L"
  ELSE IF lat < 0 THEN "M"
  ELSE IF lat < 8 * Den THEN "N"
  ELSE IF lat < 16 * Den THEN "P"
  ELSE IF lat < 24 * Den THEN "Q"
  ELSE IF lat < 32 * Den THEN "R"
  ELSE IF lat < 40 * Den THEN "S"
  ELSE IF lat < 48 * Den THEN "T"
  ELSE IF lat < 56 * Den THEN "U"
  ELSE IF lat < 64 * Den THEN "V"
  ELSE IF lat < 72 * Den THEN "W"
  ELSE "X"

\* the polar test with both comparisons turned at the boundary
ups_of_lat_mut(lat) == lat <= -80 * Den \/ lat > 84 * Den

\* utm.rs 142
ups_of_lat(lat) == lat < -80 * Den \/ lat >= 84 * Den

\* utm.rs 145-149: ilon, in whole degrees (fmod has dropped the fraction)
ilon_of(lon) ==
  LET fmod_lon == fmod(lon, 360 * Den, Den)
  IN  IF fmod_lon >= 180 * Den THEN (fmod_lon - 360 * Den) \div Den
      ELSE IF fmod_lon < -180 * Den THEN (fmod_lon + 360 * Den) \div Den
      ELSE fmod_lon \div Den

\* utm.rs 153-156: ((lat.floor() + 80) / 8 - 10).trunc().min(9).max(-10)
except_band_of(lat) ==
  Max(Min(Trunc((Floor(lat, Den) + 80) - 10 * 8, 8), 9), -10)

\* zone_of with the Norway exception on band index 6 ("U")
zone_of_mut(lat, lon) ==
  LET ilon == ilon_of(lon)
      zone == Trunc(ilon + 186, 6)
      except_band == except_band_of(lat)
  IN  IF except_band = 6 /\ zone = 31 /\ ilon >= 3 THEN 32
      ELSE IF except_band = 9 /\ ilon >= 0 /\ ilon <= 42
           THEN 2 * ((ilon + 183) \div 12) + 1
           ELSE zone

\* utm.rs 144-169: the zone of a non-polar coordinate
zone_of(lat, lon) ==
  LET ilon == ilon_of(lon)
      zone == Trunc(ilon + 186, 6)
      except_band == except_band_of(lat)
  IN  IF except_band = 7 /\ zone = 31 /\ ilon >= 3 THEN 32
      ELSE IF except_band = 9 /\ ilon >= 0 /\ ilon <= 42
           THEN 2 * ((ilon + 183) \div 12) + 1
           ELSE zone

\* a length of whole metres inside one 100 km square
Metres(sq, m, um) == [sq |-> sq, m |-> m, um |-> um]

Zero == Metres(0, 0, 0)

\* The Krueger-series projection (utm.rs 171-249) is not computable here:
\* its easting and northing are any of these values.
ProjSamples == { <<Metres(6, 60265, 400000), Metres(74, 54564, 200000)>>,
                 <<Metres(3, 92273, 0), Metres(58, 19744, 999999)>> }

NoUtm == [easting |-> Zero, northing |-> Zero, north |-> FALSE, zone |-> 0,
          band |-> " ", ups |-> FALSE]

from_coord(lat, lon, en) ==
  LET ups == ups_of_lat(lat)
  IN  [easting  |-> IF ups THEN Zero ELSE en[1],
       northing |-> IF ups THEN Zero ELSE en[2],
       north    |-> lat >= 0,
       zone     |-> IF ups THEN 0 ELSE zone_of(lat, lon),
       band     |-> band_of_lat(lat),
       ups      |-> ups]

\* Coordinates: lat in [-90, 90], lon in [-180, 180] (coord.rs 14-17)
Lats == (-90 * Den)..(90 * Den)

Lons == (-180 * Den)..(180 * Den)

NoCoord == [lat |-> 0, lon |-> 0]

\* no call of a helper function is in progress
NoCall == [fn |-> "none"]

InitCoord ==
  /\ pc = "coord"
  /\ coord \in [lat : Lats, lon : Lons]
  /\ utm = NoUtm
  /\ prec = 0
  /\ invlat = 0
  /\ mgrs = <<>>
  /\ inp = <<>>
  /\ res = [kind |-> "none"]
  /\ call = NoCall

FromCoord ==
  /\ pc = "coord"
  /\ \E en \in ProjSamples : utm' = from_coord(coord.lat, coord.lon, en)
  /\ pc' = "utm"
  /\ UNCHANGED <<call, coord, prec, invlat, mgrs, inp, res>>

SpecCoord == InitCoord /\ [][FromCoord]_vars

(***************************************************************************)
(* impl fmt::Display for Mgrs (mgrs.rs 23-156), for a non-polar Utm.       *)
(* invlat is the latitude that the inverse projection (coord.rs 51-152)    *)
(* returns for the Utm; the series is not computable here, so the latitude *)
(* is an input of the encoder.                                             *)
(***************************************************************************)
latband == <<"C", "D", "E", "F", "G", "H", "J", "K", "L", "M",
             "N", "P", "Q", "R", "S", "T", "U", "V", "W", "X">>

utmcols == << <<"A", "B", "C", "D", "E", "F", "G", "H">>,
              <<"J", "K", "L", "M", "N", "P", "Q", "R">>,
              <<"S", "T", "U", "V", "W", "X", "Y", "Z">> >>

utmrow == <<"A", "B", "C", "D", "E", "F", "G", "H", "J", "K",
            "L", "M", "N", "P", "Q", "R", "S", "T", "U", "V">>

\* the % of Rust on i32: the remainder has the sign of the dividend
Rem(a, b) == a - b * Trunc(a, b)

Panic == [kind |-> "panic"]

\* mgrs.rs 73-82: iband.  lband is kept as a numerator over 80:
\* (ilat + 80) / 8 - 10.10 = (10 * (ilat + 80) - 808) / 80
iband_of(lat, north) ==
  LET ilat == Floor(lat, Den)
      lband == Max(Min(10 * (ilat + 80) - 808, 9 * 80), -10 * 80)
  IN  IF lat # 0 THEN Trunc(lband, 80)
      ELSE IF north THEN 0 ELSE -1

\* col_letter with the table row taken from the zone, not from zone - 1
col_letter_mut(zone, xh) ==
  LET icol == xh - 1
      r == Rem(zone, 3)
      i == IF icol < 0 THEN 0 ELSE icol
  IN  IF r < 0 \/ i > 7 THEN "!" ELSE utmcols[r + 1][i + 1]

\* mgrs.rs 83, 116: utmcols[(zone1 % 3) as usize][icol as usize]; "!" stands
\* for the index-out-of-bounds panic.  A negative icol casts to 0.
col_letter(zone, xh) ==
  LET icol == xh - 1
      r == Rem(zone - 1, 3)
      i == IF icol < 0 THEN 0 ELSE icol
  IN  IF r < 0 \/ i > 7 THEN "!" ELSE utmcols[r + 1][i + 1]

\* row_letter with the shift given to the odd zones
row_letter_mut(zone, yh) ==
  LET shift == IF Rem(zone, 2) > 0 THEN 5 ELSE 0
      pos == fmod(yh + shift, 20, 1)
  IN  utmrow[Max(pos, 0) + 1]

\* mgrs.rs 117-125: utmrow[fmod(yh + (zone1 % 2 > 0 ? 5 : 0), 20) as usize]
row_letter(zone, yh) ==
  LET shift == IF Rem(zone - 1, 2) > 0 THEN 5 ELSE 0
      pos == fmod(yh + shift, 20, 1)
  IN  utmrow[Max(pos, 0) + 1]

\* digit_at one place too far to the left
digit_at_mut(x, c) ==
  LET k == 11 - c
  IN  IF k >= 6 THEN (x.m \div Pow10(k - 6)) % 10
      ELSE (x.um \div Pow10(k)) % 10

\* mgrs.rs 130-149: the digit written at place c (0 is the leftmost) of a
\* field.  ix is the micrometre count inside the square, x.m * 10^6 + x.um;
\* when the loop reaches c it has divided ix by 10^(11-prec) and then
\* prec-1-c times by 10, and writes floor(ix) mod 10: the digit of weight
\* 10^(10-c) of the micrometre count.
digit_at(x, c) ==
  LET k == 10 - c
  IN  IF k >= 6 THEN (x.m \div Pow10(k - 6)) % 10
      ELSE (x.um \div Pow10(k)) % 10

\* mgrs.rs 129-152: the easting field and the northing field
digit_fields(e, n, p) ==
  [i \in 1..(2 * p) |->
     IF i <= p THEN Digits[digit_at(e, i - 1) + 1]
     ELSE Digits[digit_at(n, i - p - 1) + 1]]

\* mgrs.rs 23-156
Display(u, p, lat) ==
  LET xh == u.easting.sq
      yh == u.northing.sq
      iband == iband_of(lat, u.north)
      col == col_letter(u.zone, xh)
  IN  IF u.zone < 0 \/ u.zone > 99 \/ col = "!" \/ p > 11 THEN Panic
      ELSE [kind |-> "ok",
            str |-> << Digits[(u.zone \div 10) + 1], Digits[(u.zone % 10) + 1],
                       latband[10 + iband + 1], col, row_letter(u.zone, yh) >>
                    \o digit_fields(u.easting, u.northing, p)]

(***************************************************************************)
(* mgrs::from_string (mgrs.rs 182-335).                                    *)
(***************************************************************************)
\* mgrs.rs 192-200
get_100k_set_for_zone(i) ==
  LET set_param == Rem(i, 6)
  IN  IF set_param = 0 THEN 6 ELSE set_param

SET_ORIGIN_COLUMN_LETTERS == <<"A", "J", "S", "A", "J", "S">>

\* the row origins with A and F swapped
SET_ORIGIN_ROW_LETTERS_mut == <<"F", "A", "F", "A", "F", "A">>

\* mgrs.rs 203
SET_ORIGIN_ROW_LETTERS == <<"A", "F", "A", "F", "A", "F">>

\* one step of the letter loops (mgrs.rs 214-220, 240-246): the next code
\* point, skipping I and O
next_letter(cur) ==
  LET n1 == cur + 1
      n2 == IF n1 = Ord("I") THEN n1 + 1 ELSE n1
  IN  IF n2 = Ord("O") THEN n2 + 1 ELSE n2

\* mgrs.rs 213-229, 239-255: the while loop; -1 stands for the panic
RECURSIVE letter_loop(_, _, _, _, _)
letter_loop(cur, value, rewind_marker, c, last) ==
  IF cur = c THEN value
  ELSE LET nx == next_letter(cur)
       IN  IF nx > last
           THEN IF rewind_marker THEN -1
                ELSE letter_loop(Ord("A"), value + 100000, TRUE, c, last)
           ELSE letter_loop(nx, value + 100000, rewind_marker, c, last)

\* mgrs.rs 208-232
get_easting_from_char(c, set) ==
  letter_loop(Ord(SET_ORIGIN_COLUMN_LETTERS[set]), 100000, FALSE, Ord(c), Ord("Z"))

\* mgrs.rs 234-258
get_northing_from_char(c, set) ==
  letter_loop(Ord(SET_ORIGIN_ROW_LETTERS[set]), 0, FALSE, Ord(c), Ord("V"))

\* get_min_northing with an arm for the letter I
get_min_northing_mut(band) ==
  CASE band = "C" -> 1100000
    [] band = "D" -> 2000000
    [] band = "E" -> 2800000
    [] band = "F" -> 3700000
    [] band = "G" -> 4600000
    [] band = "H" -> 5500000
    [] band = "I" -> 6400000
    [] band = "J" -> 6400000
    [] band = "K" -> 7300000
    [] band = "L" -> 8200000
    [] band = "M" -> 9100000
    [] band = "N" -> 0
    [] band = "P" -> 800000
    [] band = "Q" -> 1700000
    [] band = "R" -> 2600000
    [] band = "S" -> 3500000
    [] band = "T" -> 4400000
    [] band = "U" -> 5300000
    [] band = "V" -> 6200000
    [] band = "W" -> 7000000
    [] band = "X" -> 7900000
    [] OTHER -> -1

\* mgrs.rs 311-335; -1 stands for Err(InvalidZoneLetter(band))
get_min_northing(band) ==
  CASE band = "C" -> 1100000
    [] band = "D" -> 2000000
    [] band = "E" -> 2800000
    [] band = "F" -> 3700000
    [] band = "G" -> 4600000
    [] band = "H" -> 5500000
    [] band = "J" -> 6400000
    [] band = "K" -> 7300000
    [] band = "L" -> 8200000
    [] band = "M" -> 9100000
    [] band = "N" -> 0
    [] band = "P" -> 800000
    [] band = "Q" -> 1700000
    [] band = "R" -> 2600000
    [] band = "S" -> 3500000
    [] band = "T" -> 4400000
    [] band = "U" -> 5300000
    [] band = "V" -> 6200000
    [] band = "W" -> 7000000
    [] band = "X" -> 7900000
    [] OTHER -> -1

\* rollover with <= in the loop test
RECURSIVE rollover_mut(_, _)
rollover_mut(north_100k, minimum) ==
  IF north_100k <= minimum THEN rollover_mut(north_100k + 2000000, minimum)
  ELSE north_100k

\* mgrs.rs 290-292: while north_100k < get_min_northing(band)? { += 2000000 }
RECURSIVE rollover(_, _)
rollover(north_100k, minimum) ==
  IF north_100k < minimum THEN rollover(north_100k + 2000000, minimum)
  ELSE north_100k

\* inp.trim() alone: only the leading and trailing spaces are removed
strip_spaces_mut(s) ==
  LET keep == { i \in 1..Len(s) : s[i] # " " }
  IN  IF keep = {} THEN <<>>
      ELSE SubSeq(s, CHOOSE i \in keep : \A j \in keep : i <= j,
                     CHOOSE i \in keep : \A j \in keep : i >= j)

\* mgrs.rs 262: inp.trim().replace(" ", "")
strip_spaces(s) == SelectSeq(s, LAMBDA ch : ch # " ")

AllDigits(s) == \A i \in 1..Len(s) : IsDigit(s[i])

RECURSIVE digits_value(_)
digits_value(s) ==
  IF s = <<>> THEN 0
  ELSE 10 * digits_value(SubSeq(s, 1, Len(s) - 1)) + (Ord(s[Len(s)]) - Ord("0"))

\* mgrs.rs 297-298: str::parse::<f64> of a field made of digits and
\* upper-case letters other than E, F, I, N (no sign, point, exponent, "inf"
\* or "nan" in the inputs of the model): a non-empty run of digits is its
\* value in metres, anything else is a ParseFloatError (-1).  The value v
\* is returned as the length v metres, split at 100 km.
parse_f64(s) ==
  IF s = <<>> \/ ~AllDigits(s) THEN [sq |-> -1, m |-> 0, um |-> 0]
  ELSE IF Len(s) <= 5 THEN Metres(0, digits_value(s), 0)
  ELSE Metres(digits_value(SubSeq(s, 1, Len(s) - 5)),
              digits_value(SubSeq(s, Len(s) - 4, Len(s))), 0)

Err(e) == [kind |-> "err", err |-> e]

\* mgrs.rs 261-309
from_string(input) ==
  LET s == strip_spaces(input)
  IN  IF Len(s) < 2 THEN Err("NotEnoughInput")
      ELSE IF ~IsDigit(s[1]) \/ ~IsDigit(s[2]) THEN Panic
      ELSE IF Len(s) < 5 THEN Err("NotEnoughInput")
      ELSE
        LET zone == (Ord(s[1]) - Ord("0")) * 10 + (Ord(s[2]) - Ord("0"))
            band == s[3]
            hun_k_e == s[4]
            hun_k_n == s[5]
            xs == SubSeq(s, 6, Len(s))
            set == get_100k_set_for_zone(zone)
            east_100k == get_easting_from_char(hun_k_e, set)
            row_100k == get_northing_from_char(hun_k_n, set)
            minimum == get_min_northing(band)
            north_100k == rollover(row_100k, minimum)
            remainder == Len(xs)
            xs1 == SubSeq(xs, 1, remainder \div 2)
            xs2 == SubSeq(xs, remainder \div 2 + 1, remainder)
            easting_f64 == parse_f64(xs1)
            northing_f64 == parse_f64(xs2)
        IN  IF east_100k = -1 \/ row_100k = -1 THEN Panic
            ELSE IF minimum = -1
                 THEN [kind |-> "err", err |-> "InvalidZoneLetter", ch |-> band]
            ELSE IF easting_f64.sq = -1 THEN Err("EastingParseError")
            ELSE IF northing_f64.sq = -1 THEN Err("NorthingParseError")
            ELSE [kind |-> "ok",
                  utm |-> [easting  |-> Metres(east_100k \div 100000 + easting_f64.sq,
                                               easting_f64.m, 0),
                           northing |-> Metres(north_100k \div 100000 + northing_f64.sq,
                                               northing_f64.m, 0),
                           north    |-> Ord(band) >= Ord("N"),
                           zone     |-> zone,
                           band     |-> band,
                           ups      |-> FALSE],
                  prec |-> 5,
                  row_100k |-> row_100k,
                  north_100k |-> north_100k]

(***************************************************************************)
(* Encoder inputs.                                                         *)
(***************************************************************************)
Zones == 1..60

Precs == 0..11

MkUtm(zone, e, n, north, band) ==
  [easting |-> e, northing |-> n, north |-> north, zone |-> zone,
   band |-> band, ups |-> FALSE]

MkMgrs(u, p, lat) == [utm |-> u, prec |-> p, invlat |-> lat]

\* the points of the repository's tests (mgrs.rs 374-392, utm.rs 473-482,
\* 539-552, coord.rs 182-199), each with a latitude of its whole degree
RealPoints ==
  { MkMgrs(MkUtm(48, Metres(3, 77298, 900000), Metres(14, 83035, 0), TRUE, "P"),
           5, 13 * Den + 1),
    MkMgrs(MkUtm(23, Metres(6, 60264, 500000), Metres(74, 54563, 500000), FALSE, "K"),
           5, -24 * Den + 1),
    MkMgrs(MkUtm(33, Metres(3, 92273, 0), Metres(58, 19744, 0), TRUE, "U"),
           5, 52 * Den + 1),
    MkMgrs(MkUtm(34, Metres(7, 25641, 617432), Metres(49, 11303, 287421), TRUE, "N"),
           5, 44 * Den + 1),
    MkMgrs(MkUtm(34, Metres(2, 73893, 0), Metres(62, 27030, 0), FALSE, "H"),
           5, -35 * Den + 1) }

RoundInputs == { MkMgrs(r.utm, p, r.invlat) : r \in RealPoints, p \in Precs }

\* metres and micrometres inside the 100 km square: easting, northing
FracPairs ==
  { <<Metres(0, 77298, 900000), Metres(0, 83035, 0)>>,
    <<Metres(0, 0, 0), Metres(0, 99999, 999999)>>,
    <<Metres(0, 5, 1), Metres(0, 10000, 100000)>>,
    <<Metres(0, 12345, 678901), Metres(0, 9, 9)>> }

\* every zone with every 100 km square of the bounds
GridInputs ==
  { MkMgrs(MkUtm(z, Metres(xh, 77298, 900000), Metres(yh, 83035, 0), TRUE, "P"),
           5, 13 * Den + 1) :
      z \in Zones, xh \in 0..MaxSq, yh \in 0..MaxRowSq }

\* every precision with every pair of fractions
DigitInputs ==
  { MkMgrs(MkUtm(z[1], Metres(xh, f[1].m, f[1].um), Metres(z[2], f[2].m, f[2].um),
                 TRUE, "P"),
           p, 13 * Den + 1) :
      z \in {<<1, 0>>, <<48, 14>>}, xh \in 0..MaxSq, f \in FracPairs, p \in Precs }

\* every latitude, in both hemispheres
BandInputs ==
  { MkMgrs(MkUtm(z, Metres(3, 77298, 900000), Metres(14, 83035, 0), n,
                 band_of_lat(lat)),
           5, lat) :
      z \in {23, 48}, n \in BOOLEAN, lat \in Lats }

MgrsInputs == GridInputs \cup DigitInputs \cup BandInputs

InitWith(inputs) ==
  /\ pc = "mgrs"
  /\ \E i \in inputs : utm = i.utm /\ prec = i.prec /\ invlat = i.invlat
  /\ coord = NoCoord
  /\ mgrs = <<>>
  /\ inp = <<>>
  /\ res = [kind |-> "none"]
  /\ call = NoCall

InitMgrs == InitWith(MgrsInputs)

InitRound == InitWith(RoundInputs)

\* mgrs.to_string()
Fmt ==
  /\ pc = "mgrs"
  /\ ~utm.ups
  /\ mgrs' = Display(utm, prec, invlat)
  /\ pc' = "shown"
  /\ UNCHANGED <<call, coord, utm, prec, invlat, inp, res>>

\* from_string(&mgrs.to_string())
Reparse ==
  /\ pc = "shown"
  /\ mgrs.kind = "ok"
  /\ inp' = mgrs.str
  /\ res' = from_string(mgrs.str)
  /\ pc' = "reparsed"
  /\ UNCHANGED <<call, coord, utm, prec, invlat, mgrs>>

NextMgrs == Fmt \/ Reparse

SpecMgrs == InitMgrs /\ [][NextMgrs]_vars

SpecRound == InitRound /\ [][NextMgrs]_vars

(***************************************************************************)
(* Decoder inputs.                                                         *)
(***************************************************************************)
DecZones == {1, 2, 3, 4, 5, 6, 48, 60}

ZoneDigits(z) == <<Digits[(z \div 10) + 1], Digits[(z % 10) + 1]>>

BandChars == { Upper[i] : i \in 1..Len(Upper) } \cup {"n"}

RowChars == { utmrow[i] : i \in 1..Len(utmrow) } \cup {"I", "W"}

ColChars == { Upper[i] : i \in 1..Len(Upper) }

Fields == { <<>>, <<"7", "7", "2", "9", "8", "8", "3", "0", "3", "4">>,
            <<"0", "9">>, <<"1", "2", "3">> }

\* every band with every row letter
RowInputs ==
  { ZoneDigits(z) \o <<b, "U", r>> \o f :
      z \in DecZones, b \in BandChars, r \in RowChars, f \in Fields }

\* every column letter
ColInputs ==
  { ZoneDigits(z) \o <<"P", c, "V">> \o f :
      z \in DecZones, c \in ColChars, f \in Fields }

ZoneChars == { Digits[i] : i \in 1..Len(Digits) } \cup {"A", "x"}

\* every pair of leading characters, digits or not, before "PUV7729883034"
ZoneInputs ==
  { <<a, b, "P", "U", "V", "7", "7", "2", "9", "8", "8", "3", "0", "3", "4">> :
      a \in ZoneChars, b \in ZoneChars }

ShortChars == {"4", "P", " "}

\* every string of at most MaxLen characters over ShortChars
ShortInputs == UNION { [1..k -> ShortChars] : k \in 0..MaxLen }

DecInputs == RowInputs \cup ColInputs \cup ZoneInputs \cup ShortInputs

InitDec ==
  /\ pc = "str"
  /\ inp \in DecInputs
  /\ coord = NoCoord
  /\ utm = NoUtm
  /\ prec = 0
  /\ invlat = 0
  /\ mgrs = <<>>
  /\ res = [kind |-> "none"]
  /\ call = NoCall

\* from_string(inp)
FromString ==
  /\ pc = "str"
  /\ res' = from_string(inp)
  /\ pc' = "parsed"
  /\ UNCHANGED <<call, coord, utm, prec, invlat, mgrs, inp>>

SpecDec == InitDec /\ [][FromString]_vars

(***************************************************************************)
(* from_string on strings that differ in their spaces only: a caller       *)
(* parses a string, puts one more space into it and parses it again.       *)
(***************************************************************************)
\* strings of every outcome of from_string: Ok (the string of
\* test_from_string_01 without its spaces), InvalidZoneLetter,
\* EastingParseError, NorthingParseError, NotEnoughInput and the two panics
SpaceInputs ==
  { <<"4", "8", "P", "U", "V", "7", "7", "2", "9", "8", "8", "3", "0", "3", "4">>,
    <<"4", "8", "I", "U", "V", "1", "2">>,
    <<"4", "8", "P", "U", "V", "1">>,
    <<"4", "8", "P", "U", "V", "1", "2", "A", "4">>,
    <<"4", "8", "P", "U">>,
    <<"4", "8", "P", "U", "W", "1", "2">>,
    <<"4", "P">> }

\* s with a space put in after its first k characters
Insert(s, k) == SubSeq(s, 1, k) \o <<" ">> \o SubSeq(s, k + 1, Len(s))

InitSpace ==
  /\ pc = "str"
  /\ inp \in SpaceInputs
  /\ coord = NoCoord
  /\ utm = NoUtm
  /\ prec = 0
  /\ invlat = 0
  /\ mgrs = <<>>
  /\ res = [kind |-> "none"]
  /\ call = NoCall

\* the caller puts one more space anywhere into the string parsed last
InsertSpace ==
  /\ pc = "parsed"
  /\ Len(inp) - Len(SelectSeq(inp, LAMBDA ch : ch # " ")) < MaxSpaces
  /\ \E k \in 0..Len(inp) : inp' = Insert(inp, k)
  /\ pc' = "str"
  /\ UNCHANGED <<call, coord, utm, prec, invlat, mgrs, res>>

NextSpace == FromString \/ InsertSpace

SpecSpace == InitSpace /\ [][NextSpace]_vars

(***************************************************************************)
(* Zone and band claims, checked under SpecCoord.                          *)
(***************************************************************************)
\* the longitude normalized to [-180, 180): 180 is treated as -180
NormLon(lon) == IF lon >= 180 * Den THEN lon - 360 * Den ELSE lon

\* floor((L + 186) / 6) of the normalized longitude L
RegularZone(lon) == Floor(NormLon(lon) + 186 * Den, 6 * Den)

NonPolar(lat) == lat >= -80 * Den /\ lat < 84 * Den

InNorwayCell(lat, lon) ==
  /\ lat >= 56 * Den /\ lat < 64 * Den
  /\ NormLon(lon) >= 3 * Den /\ NormLon(lon) < 6 * Den

InSvalbardCell(lat, lon) ==
  /\ lat >= 72 * Den /\ lat < 84 * Den
  /\ NormLon(lon) >= 0 /\ NormLon(lon) < 42 * Den

\* C1: outside the Norway and Svalbard cells, a non-polar coordinate gets
\* zone floor((L + 186) / 6) for every longitude in [-180, 180], fractions
\* and negative values included.
C1_RegularZone ==
  (pc = "utm" /\ NonPolar(coord.lat)
     /\ ~InNorwayCell(coord.lat, coord.lon)
     /\ ~InSvalbardCell(coord.lat, coord.lon))
  => utm.zone = RegularZone(coord.lon)

\* C2: for -80 <= lat < 84 the band letter is the letter at index
\* min(19, floor((lat + 80) / 8)) of C..X without I and O.
C2_BandLetter ==
  (pc = "utm" /\ NonPolar(coord.lat))
  => /\ utm.band = latband[Min(19, Floor(coord.lat + 80 * Den, 8 * Den)) + 1]
     /\ utm.band \notin {"I", "O"}

\* a latitude in [80, 84) has been given the band X, past the 8 degree grid
C2_Witness ==
  pc = "utm" /\ coord.lat >= 80 * Den /\ coord.lat < 84 * Den /\ utm.band = "X"

\* C3: in band X the zone is 2 * floor((L + 183) / 12) + 1 exactly for
\* 0 <= L < 42, and the regular zone for every other longitude.
C3_Svalbard ==
  (pc = "utm" /\ coord.lat >= 72 * Den /\ coord.lat < 84 * Den)
  => utm.zone = IF InSvalbardCell(coord.lat, coord.lon)
                THEN 2 * Floor(NormLon(coord.lon) + 183 * Den, 12 * Den) + 1
                ELSE RegularZone(coord.lon)

\* C4: the zone is forced from 31 to 32 exactly when the exception band
\* index floor((floor(lat) + 80) / 8) - 10 is 7 and the longitude is at
\* least 3 degrees; index 7 is the band reported as V, and band U keeps 31.
C4_Norway ==
  (pc = "utm" /\ NonPolar(coord.lat))
  => LET idx == Floor(Floor(coord.lat, Den) + 80, 8) - 10
         L == NormLon(coord.lon)
         forced == utm.zone = 32 /\ RegularZone(coord.lon) = 31
     IN  /\ forced <=> (idx = 7 /\ RegularZone(coord.lon) = 31 /\ L >= 3 * Den)
         /\ (idx = 7) <=> (utm.band = "V")
         /\ (utm.band = "U" /\ L >= 3 * Den /\ L < 6 * Den) => utm.zone = 31

\* a coordinate of the Norway cell has been given zone 32 and band V
C4_Witness ==
  /\ pc = "utm"
  /\ InNorwayCell(coord.lat, coord.lon)
  /\ utm.zone = 32
  /\ utm.band = "V"

(***************************************************************************)
(* Encoder and decoder claims.                                             *)
(***************************************************************************)
\* order and distance of two lengths
MLess(a, b) ==
  \/ a.sq < b.sq
  \/ a.sq = b.sq /\ a.m < b.m
  \/ a.sq = b.sq /\ a.m = b.m /\ a.um < b.um

\* a - b for b <= a
MSub(a, b) ==
  LET um == a.um - b.um
      m == a.m - b.m - (IF um < 0 THEN 1 ELSE 0)
  IN  Metres(a.sq - b.sq - (IF m < 0 THEN 1 ELSE 0),
             IF m < 0 THEN m + 100000 ELSE m,
             IF um < 0 THEN um + 1000000 ELSE um)

MDist(a, b) == IF MLess(a, b) THEN MSub(b, a) ELSE MSub(a, b)

\* 10^(5-p) metres
Granule(p) ==
  IF p = 0 THEN Metres(1, 0, 0)
  ELSE IF p <= 5 THEN Metres(0, Pow10(5 - p), 0)
  ELSE Metres(0, 0, Pow10(11 - p))

Close(a, b, p) == MLess(MDist(a, b), Granule(p))

\* C5: decoding the string encoded at precision p succeeds and gives back
\* the easting and the northing within 10^(5-p) metres.
C5_RoundTrip ==
  pc = "reparsed"
  => /\ res.kind = "ok"
     /\ Close(res.utm.easting, utm.easting, prec)
     /\ Close(res.utm.northing, utm.northing, prec)

\* C6 as stated: the row letter is utmrow[(yh + s) mod 20] with s = 5 for
\* the odd zones and s = 0 for the even zones.
C6_RowShiftOddZones ==
  (pc = "shown" /\ mgrs.kind = "ok")
  => mgrs.str[5] =
       utmrow[((utm.northing.sq + (IF utm.zone % 2 = 1 THEN 5 ELSE 0)) % 20) + 1]

\* C6 amended: the row letter is utmrow[(yh + s) mod 20] with s = 5 for the
\* even zones and s = 0 for the odd zones.
C6_RowShiftEvenZones ==
  (pc = "shown" /\ mgrs.kind = "ok")
  => mgrs.str[5] =
       utmrow[((utm.northing.sq + (IF utm.zone % 2 = 0 THEN 5 ELSE 0)) % 20) + 1]

\* the row of the test point 48PUV: even zone, yh = 14, shifted to V
C6_Witness ==
  /\ pc = "shown"
  /\ mgrs.kind = "ok"
  /\ utm.zone = 48
  /\ utm.northing.sq = 14
  /\ mgrs.str[5] = "V"

\* C7: with 100000 <= easting < 900000 the column letter is
\* utmcols[(zone - 1) mod 3][xh - 1], the index xh - 1 is in 0..7, and the
\* zones z and z + 3 get the same letter.
C7_ColumnLetter ==
  (pc = "shown" /\ utm.easting.sq >= 1 /\ utm.easting.sq <= 8)
  => /\ mgrs.kind = "ok"
     /\ utm.easting.sq - 1 \in 0..7
     /\ mgrs.str[4] = utmcols[((utm.zone - 1) % 3) + 1][utm.easting.sq]
     /\ utm.zone + 3 <= 60 =>
          mgrs.str[4] = col_letter(utm.zone + 3, utm.easting.sq)

\* zone 59 is in the row of zone 2: its eighth column is R
C7_Witness ==
  /\ pc = "shown"
  /\ mgrs.kind = "ok"
  /\ utm.zone = 59
  /\ utm.easting.sq = 8
  /\ mgrs.str[4] = "R"

\* C8: the band letter of the encoder is the band letter from_coord gives
\* to the same latitude, for every latitude in [-80, 84) other than 0.
C8_BandAgrees ==
  (pc = "shown" /\ mgrs.kind = "ok" /\ NonPolar(invlat) /\ invlat # 0)
  => mgrs.str[3] = band_of_lat(invlat)

\* v written with w digits, zeros on the left
Pad(v, w) == [i \in 1..w |-> Digits[((v \div Pow10(w - i)) % 10) + 1]]

\* the micrometre count inside the square, integer-divided by 10^(11-p),
\* written with p digits
FieldOf(x, p) ==
  IF p <= 5 THEN Pad(x.m \div Pow10(5 - p), p)
  ELSE Pad(x.m, 5) \o Pad(x.um \div Pow10(11 - p), p - 5)

WellFormedOutput ==
  /\ mgrs.kind = "ok"
  /\ Len(mgrs.str) = 5 + 2 * prec
  /\ SubSeq(mgrs.str, 1, 2) = ZoneDigits(utm.zone)
  /\ \E i \in 1..Len(latband) : mgrs.str[3] = latband[i]
  /\ IsUpper(mgrs.str[4])
  /\ \E i \in 1..Len(utmrow) : mgrs.str[5] = utmrow[i]
  /\ SubSeq(mgrs.str, 6, 5 + prec) = FieldOf(utm.easting, prec)
  /\ SubSeq(mgrs.str, 6 + prec, 5 + 2 * prec) = FieldOf(utm.northing, prec)
  /\ \A i \in 1..Len(mgrs.str) : mgrs.str[i] # " "

\* C9 as stated: for every non-negative easting and northing the output
\* has 5 + 2p characters, zone digits, three letters and two fields of p
\* digits, each the truncated micrometre count inside the square.
C9_OutputAnyEasting == pc = "shown" => WellFormedOutput

\* C9 amended: the same for 0 <= easting < 900000.
C9_OutputBelow900km ==
  (pc = "shown" /\ utm.easting.sq <= 8) => WellFormedOutput

\* a field of 11 digits with zeros on the left has been written
C9_Witness ==
  /\ pc = "shown"
  /\ mgrs.kind = "ok"
  /\ prec = 11
  /\ utm.easting.m = 5
  /\ Len(mgrs.str) = 27
  /\ SubSeq(mgrs.str, 6, 16) = <<"0", "0", "0", "0", "5", "0", "0", "0", "0", "0", "1">>

\* C10: the northing offset is the row offset plus the least number of
\* 2000000 m steps that reaches the minimum northing of the band.
C10_Rollover ==
  (pc = "parsed" /\ res.kind = "ok")
  => LET r == res.row_100k
         N == res.north_100k
         lo == get_min_northing(res.utm.band)
     IN  /\ r = get_northing_from_char(inp[5], get_100k_set_for_zone(res.utm.zone))
         /\ N >= r /\ (N - r) % 2000000 = 0
         /\ N >= lo
         /\ N > r => N - 2000000 < lo
         /\ r < lo => (lo <= N /\ N < lo + 2000000)
         /\ r >= lo => N = r
         /\ res.utm.northing.sq >= N \div 100000

\* a row offset equal to the minimum of its band is kept as it is, and
\* a lower one has been raised
C10_Witness ==
  /\ pc = "parsed"
  /\ res.kind = "ok"
  /\ res.utm.band = "P"
  /\ res.row_100k = 800000
  /\ res.north_100k = 800000

(***************************************************************************)
(* math::fmod on its own: a and b are numerators over Den, b # 0.          *)
(***************************************************************************)
FmodCalls ==
  { [fn |-> "fmod", a |-> a, b |-> b, status |-> "run"] :
      a \in (-MaxFmod * Den)..(MaxFmod * Den),
      b \in ((-MaxFmod * Den)..(MaxFmod * Den)) \ {0} }

InitFmod ==
  /\ pc = "fmod"
  /\ call \in FmodCalls
  /\ coord = NoCoord
  /\ utm = NoUtm
  /\ prec = 0
  /\ invlat = 0
  /\ mgrs = <<>>
  /\ inp = <<>>
  /\ res = [kind |-> "none"]

\* math.rs 97-99: fmod(a, b)
Fmod ==
  /\ pc = "fmod"
  /\ call.status = "run"
  /\ call' = [fn |-> "fmod", a |-> call.a, b |-> call.b, status |-> "ret",
              out |-> fmod(call.a, call.b, Den)]
  /\ UNCHANGED <<pc, coord, utm, prec, invlat, mgrs, inp, res>>

SpecFmod == InitFmod /\ [][Fmod]_vars

(***************************************************************************)
(* math::remainder and math::angle_normalize.  Angles are numerators over  *)
(* Den; f64::round rounds a half away from zero.                           *)
(***************************************************************************)
\* (a / b).round(), b # 0
Round(a, b) ==
  LET q == (2 * Abs(a) + Abs(b)) \div (2 * Abs(b))
  IN  IF (a < 0) # (b < 0) THEN -q ELSE q

\* math.rs 117-119
remainder(numer, denom) == numer - Round(numer, denom) * denom

\* angle_normalize without the test for -180
angle_normalize_mut(d) == remainder(d, 360 * Den)

\* math.rs 135-139
angle_normalize(d) ==
  LET x == remainder(d, 360 * Den)
  IN  IF x # -180 * Den THEN x ELSE 180 * Den

AngleCalls ==
  { [fn |-> "angle_normalize", d |-> d, status |-> "run"] :
      d \in (-MaxAngle * Den)..(MaxAngle * Den) }

InitAngle ==
  /\ pc = "angle"
  /\ call \in AngleCalls
  /\ coord = NoCoord
  /\ utm = NoUtm
  /\ prec = 0
  /\ invlat = 0
  /\ mgrs = <<>>
  /\ inp = <<>>
  /\ res = [kind |-> "none"]

\* math.rs 135-139: angle_normalize(d)
AngleNormalize ==
  /\ pc = "angle"
  /\ call.status = "run"
  /\ call' = [fn |-> "angle_normalize", d |-> call.d, status |-> "ret",
              out |-> angle_normalize(call.d)]
  /\ UNCHANGED <<pc, coord, utm, prec, invlat, mgrs, inp, res>>

SpecAngle == InitAngle /\ [][AngleNormalize]_vars

(***************************************************************************)
(* Datum::new (datum.rs 47-93) as far as it indexes its three tables.      *)
(* call holds the lengths la, lb, l1 of alpcoeff, betcoeff and b1coeff,    *)
(* the locals o and i, the indices read so far in each table, the slice    *)
(* [o, len] of every loop iteration and the vectors alp and bet, whose     *)
(* computed entries are kept as the offset and order they were read with.  *)
(* An index out of bounds is a panic.                                      *)
(***************************************************************************)
\* datum.rs 55
maxpow == 6

TableLens == {0, 7, 26, 27, 28}

B1Lens == {0, 3, 4, 5, 6}

DatumCalls ==
  { [fn |-> "Datum::new", la |-> la, lb |-> lb, l1 |-> l1, stage |-> "b1",
     i |-> 0, o |-> 0, alp |-> <<>>, bet |-> <<>>,
     reads_a |-> {}, reads_b |-> {}, reads_1 |-> {}, slices |-> <<>>,
     status |-> "run"] :
      la \in TableLens, lb \in TableLens, l1 \in B1Lens }

\* math.rs 179-185 on the slice table[o..] of a table of length len: the
\* indices read, or {-1} when coefficents[..order+1] is out of bounds
polyval(order, o, len) ==
  IF o + order + 1 > len THEN {-1} ELSE o..(o + order)

\* the offset advancing by m + 1
next_offset_mut(o, m) == o + m + 1

\* datum.rs 74: o = o + m + 2
next_offset(o, m) == o + m + 2

InitDatum ==
  /\ pc = "datum"
  /\ call \in DatumCalls
  /\ coord = NoCoord
  /\ utm = NoUtm
  /\ prec = 0
  /\ invlat = 0
  /\ mgrs = <<>>
  /\ inp = <<>>
  /\ res = [kind |-> "none"]

\* datum.rs 48-65: the scalars, alp.push(0.0), bet.push(0.0) and b1, which
\* reads b1coeff[..m+1] and then b1coeff[m+1]
DatumB1 ==
  /\ pc = "datum"
  /\ call.status = "run"
  /\ call.stage = "b1"
  /\ LET m == maxpow \div 2
         p == polyval(m, 0, call.l1)
     IN  call' = IF p = {-1} THEN [call EXCEPT !.status = "panic"]
                 ELSE IF m + 1 >= call.l1
                 THEN [call EXCEPT !.reads_1 = p, !.status = "panic"]
                 ELSE [call EXCEPT !.reads_1 = p \cup {m + 1}, !.alp = <<0>>,
                                   !.bet = <<0>>, !.stage = "loop"]
  /\ UNCHANGED <<pc, coord, utm, prec, invlat, mgrs, inp, res>>

\* datum.rs 70-76: one iteration of for i in 0..maxpow; each table is read
\* by polyval first and at its divisor o+m+1 next, alpcoeff before betcoeff
DatumIter ==
  /\ pc = "datum"
  /\ call.status = "run"
  /\ call.stage = "loop"
  /\ call.i < maxpow
  /\ LET m == maxpow - call.i - 1
         o == call.o
         pa == polyval(m, o, call.la)
         pb == polyval(m, o, call.lb)
     IN  call' = IF pa = {-1} THEN [call EXCEPT !.status = "panic"]
                 ELSE IF o + m + 1 >= call.la
                 THEN [call EXCEPT !.reads_a = @ \cup pa, !.status = "panic"]
                 ELSE IF pb = {-1}
                 THEN [call EXCEPT !.reads_a = @ \cup pa \cup {o + m + 1},
                                   !.status = "panic"]
                 ELSE IF o + m + 1 >= call.lb
                 THEN [call EXCEPT !.reads_a = @ \cup pa \cup {o + m + 1},
                                   !.reads_b = @ \cup pb, !.status = "panic"]
                 ELSE [call EXCEPT !.reads_a = @ \cup pa \cup {o + m + 1},
                                   !.reads_b = @ \cup pb \cup {o + m + 1},
                                   !.alp = Append(@, [o |-> o, m |-> m]),
                                   !.bet = Append(@, [o |-> o, m |-> m]),
                                   !.slices = Append(@, [o |-> o, len |-> m + 2]),
                                   !.o = next_offset(o, m),
                                   !.i = @ + 1]
  /\ UNCHANGED <<pc, coord, utm, prec, invlat, mgrs, inp, res>>

\* datum.rs 78-92: Ok(Datum { .. })
DatumReturn ==
  /\ pc = "datum"
  /\ call.status = "run"
  /\ call.stage = "loop"
  /\ call.i = maxpow
  /\ call' = [call EXCEPT !.status = "ok"]
  /\ UNCHANGED <<pc, coord, utm, prec, invlat, mgrs, inp, res>>

NextDatum == DatumB1 \/ DatumIter \/ DatumReturn

SpecDatum == InitDatum /\ [][NextDatum]_vars

(***************************************************************************)
(* The grid-square letters of the encoder given back to the decoder: the   *)
(* column letter of (zone, xh) and the row letter of (zone, yh) are        *)
(* resolved with the letter set of the zone.                               *)
(***************************************************************************)
LetterCalls ==
  { [fn |-> "letters", zone |-> z, xh |-> xh, yh |-> yh, status |-> "run"] :
      z \in 1..60, xh \in 1..8, yh \in 0..MaxYh }

InitLetters ==
  /\ pc = "letters"
  /\ call \in LetterCalls
  /\ coord = NoCoord
  /\ utm = NoUtm
  /\ prec = 0
  /\ invlat = 0
  /\ mgrs = <<>>
  /\ inp = <<>>
  /\ res = [kind |-> "none"]

\* mgrs.rs 115-125 (the letters written), then mgrs.rs 281-285 (the set of
\* the zone and the offsets of the two letters)
ResolveLetters ==
  /\ pc = "letters"
  /\ call.status = "run"
  /\ LET col == col_letter(call.zone, call.xh)
         row == row_letter(call.zone, call.yh)
         set == get_100k_set_for_zone(call.zone)
     IN  call' = [fn |-> "letters", zone |-> call.zone, xh |-> call.xh,
                  yh |-> call.yh, status |-> "ret", col |-> col, row |-> row,
                  east_100k |-> get_easting_from_char(col, set),
                  north_100k |-> get_northing_from_char(row, set)]
  /\ UNCHANGED <<pc, coord, utm, prec, invlat, mgrs, inp, res>>

SpecLetters == InitLetters /\ [][ResolveLetters]_vars

(***************************************************************************)
(* The loops of the decoder, one iteration per step: the letter loops of   *)
(* get_easting_from_char and get_northing_from_char (mgrs.rs 213-229,      *)
(* 239-255) and the rollover loop of from_string (mgrs.rs 290-292).  call  *)
(* holds the locals of the running loop, steps counts the iterations       *)
(* entered and status says whether the loop runs, has returned, has        *)
(* panicked or has left from_string with an Err.                           *)
(***************************************************************************)
LoopChars == { Upper[i] : i \in 1..Len(Upper) } \cup {"0", "a", "[", " "}

\* mgrs.rs 209-211, 235-237: the locals before the loop
EastingCall(c, set) ==
  [fn |-> "get_easting_from_char", c |-> c, set |-> set,
   cur |-> Ord(SET_ORIGIN_COLUMN_LETTERS[set]), value |-> 100000,
   rewind_marker |-> FALSE, steps |-> 0, status |-> "run"]

NorthingCall(c, set) ==
  [fn |-> "get_northing_from_char", c |-> c, set |-> set,
   cur |-> Ord(SET_ORIGIN_ROW_LETTERS[set]), value |-> 0,
   rewind_marker |-> FALSE, steps |-> 0, status |-> "run"]

\* mgrs.rs 285: north_100k is a return value of get_northing_from_char
RolloverCall(band, north_100k) ==
  [fn |-> "rollover", band |-> band, value |-> north_100k,
   steps |-> 0, status |-> "run"]

LoopCalls ==
  { EastingCall(c, set) : c \in LoopChars, set \in 1..6 }
    \cup { NorthingCall(c, set) : c \in LoopChars, set \in 1..6 }
    \cup { RolloverCall(band, 100000 * k) : band \in BandChars, k \in 0..19 }

\* the last letter of the alphabet of the loop
last_letter(fn) == IF fn = "get_easting_from_char" THEN Ord("Z") ELSE Ord("V")

\* the loop body without rewind_marker = true
loop_step_mut(l) ==
  LET nx == next_letter(l.cur)
  IN  IF nx > last_letter(l.fn)
      THEN IF l.rewind_marker
           THEN [l EXCEPT !.cur = nx, !.steps = @ + 1, !.status = "panic"]
           ELSE [l EXCEPT !.cur = Ord("A"), !.value = @ + 100000, !.steps = @ + 1]
      ELSE [l EXCEPT !.cur = nx, !.value = @ + 100000, !.steps = @ + 1]

\* mgrs.rs 214-228, 240-254: the body of the while loop
loop_step(l) ==
  LET nx == next_letter(l.cur)
  IN  IF nx > last_letter(l.fn)
      THEN IF l.rewind_marker
           THEN [l EXCEPT !.cur = nx, !.steps = @ + 1, !.status = "panic"]
           ELSE [l EXCEPT !.cur = Ord("A"), !.rewind_marker = TRUE,
                          !.value = @ + 100000, !.steps = @ + 1]
      ELSE [l EXCEPT !.cur = nx, !.value = @ + 100000, !.steps = @ + 1]

InitLoop ==
  /\ pc = "loop"
  /\ call \in LoopCalls
  /\ coord = NoCoord
  /\ utm = NoUtm
  /\ prec = 0
  /\ invlat = 0
  /\ mgrs = <<>>
  /\ inp = <<>>
  /\ res = [kind |-> "none"]

\* mgrs.rs 213, 239: the loop test, then the body or the return
LetterStep ==
  /\ pc = "loop"
  /\ call.fn \in {"get_easting_from_char", "get_northing_from_char"}
  /\ call.status = "run"
  /\ call.steps < StepCap
  /\ call' = IF call.cur = Ord(call.c) THEN [call EXCEPT !.status = "ret"]
             ELSE loop_step(call)
  /\ UNCHANGED <<pc, coord, utm, prec, invlat, mgrs, inp, res>>

\* mgrs.rs 290-292: get_min_northing(band)? is evaluated in every test
RollStep ==
  /\ pc = "loop"
  /\ call.fn = "rollover"
  /\ call.status = "run"
  /\ call.steps < StepCap
  /\ call' = IF get_min_northing(call.band) = -1 THEN [call EXCEPT !.status = "err"]
             ELSE IF call.value < get_min_northing(call.band)
             THEN [call EXCEPT !.value = @ + 2000000, !.steps = @ + 1]
             ELSE [call EXCEPT !.status = "ret"]
  /\ UNCHANGED <<pc, coord, utm, prec, invlat, mgrs, inp, res>>

NextLoop == LetterStep \/ RollStep

\* a running loop takes its next iteration
SpecLoop == InitLoop /\ [][NextLoop]_vars /\ WF_vars(NextLoop)

(***************************************************************************)
(* Claims about mgrs::from_string.                                         *)
(***************************************************************************)
\* the letters the column loop and the row loop reach from any origin with
\* at most one wrap: A..Z and A..V without I and O
ColLetters == { Upper[i] : i \in 1..26 } \ {"I", "O"}

RowLetters == { Upper[i] : i \in 1..22 } \ {"I", "O"}

\* C11: from_string aborts only when the column or the row letter of the
\* input cannot be reached within one wrap; an input whose first two
\* characters are not both decimal digits gets an Err
C11_PanicOnlyOnLetters ==
  pc = "parsed" =>
    LET s == strip_spaces(inp)
    IN  /\ res.kind = "panic" =>
              /\ Len(s) >= 5
              /\ IsDigit(s[1]) /\ IsDigit(s[2])
              /\ s[4] \notin ColLetters \/ s[5] \notin RowLetters
        /\ (Len(s) >= 2 /\ ~(IsDigit(s[1]) /\ IsDigit(s[2]))) => res.kind = "err"

\* the number of characters of s other than the space
NonSpaces(s) == Cardinality({ i \in 1..Len(s) : s[i] # " " })

\* C12: every input with fewer than 5 characters once the spaces are
\* removed, the empty input included and whatever the characters are, gets
\* Err(NotEnoughInput)
C12_ShortInput ==
  (pc = "parsed" /\ NonSpaces(inp) < 5) => res = Err("NotEnoughInput")

\* the input has two zone digits, a band character and grid letters that
\* the letter loops reach
ReadsGridSquare(s) ==
  /\ Len(s) >= 5
  /\ IsDigit(s[1]) /\ IsDigit(s[2])
  /\ s[4] \in ColLetters
  /\ s[5] \in RowLetters

\* C13: an input whose remainder after the two grid-square letters has odd
\* length is rejected with an Err; no Ok is built from unequal halves
C13_OddRemainder ==
  pc = "parsed" =>
    LET s == strip_spaces(inp)
    IN  (ReadsGridSquare(s) /\ (Len(s) - 5) % 2 = 1) => res.kind = "err"

\* the 20 latitude band letters: C..X without I and O
BandLetters == { Upper[i] : i \in 3..24 } \ {"I", "O"}

\* the characters after the grid square are digits, in two equal halves
EvenDigitField(s) ==
  /\ (Len(s) - 5) % 2 = 0
  /\ \A i \in 6..Len(s) : IsDigit(s[i])

InvalidZoneLetter(r) == r.kind = "err" /\ r.err = "InvalidZoneLetter"

\* C14: for an input with two zone digits, reachable grid letters and a
\* well-formed digit field, from_string returns Err(InvalidZoneLetter(b))
\* exactly when the band character b is not one of the 20 band letters, and
\* the error carries that character
C14_InvalidZoneLetter ==
  pc = "parsed" =>
    LET s == strip_spaces(inp)
    IN  (ReadsGridSquare(s) /\ EvenDigitField(s)) =>
          /\ InvalidZoneLetter(res) <=> s[3] \notin BandLetters
          /\ InvalidZoneLetter(res) => res.ch = s[3]

C14_Witness ==
  /\ pc = "parsed"
  /\ ReadsGridSquare(inp)
  /\ EvenDigitField(inp)
  /\ Len(inp) = 15
  /\ inp[3] = "n"
  /\ res = [kind |-> "err", err |-> "InvalidZoneLetter", ch |-> "n"]

\* C15: putting spaces into the input, any number of them at any positions,
\* does not change the outcome of from_string: parsing the string again
\* after one more space was put in gives the same error, or the same Ok with
\* the same zone, band, easting, northing, north and ups
C15_SpacesIgnored ==
  [][(pc = "str" /\ res.kind # "none") => res' = res]_vars

C15_Witness ==
  /\ pc = "parsed"
  /\ inp = <<"4", "8", "P", " ", "U", "V", " ", "7", "7", "2", "9", "8", " ",
             "8", "3", "0", "3", "4">>
  /\ res.kind = "ok"
  /\ res.utm.zone = 48
  /\ res.utm.band = "P"

(***************************************************************************)
(* Claims about the loops of the decoder.                                  *)
(***************************************************************************)
\* what a loop has done so far is within the claimed limits: a letter loop
\* has made at most two passes over its alphabet (24 column letters, 20 row
\* letters), has returned only a letter of that alphabet, with the offset
\* get_easting_from_char or get_northing_from_char gives, and has panicked
\* only at a second wrap on a character outside the alphabet; the rollover
\* loop has added 2,000,000 at most 5 times
WithinLimits ==
  /\ call.fn = "get_easting_from_char" =>
       /\ call.steps <= 2 * Cardinality(ColLetters)
       /\ call.status = "ret" =>
            /\ call.c \in ColLetters
            /\ call.value = get_easting_from_char(call.c, call.set)
       /\ call.status = "panic" => (call.c \notin ColLetters /\ call.rewind_marker)
  /\ call.fn = "get_northing_from_char" =>
       /\ call.steps <= 2 * Cardinality(RowLetters)
       /\ call.status = "ret" =>
            /\ call.c \in RowLetters
            /\ call.value = get_northing_from_char(call.c, call.set)
       /\ call.status = "panic" => (call.c \notin RowLetters /\ call.rewind_marker)
  /\ call.fn = "rollover" =>
       /\ call.steps <= 5
       /\ call.status = "ret" => call.band \in BandLetters

\* C16: for every character and every set 1..6 the letter loops stop after
\* at most two passes over the alphabet, with an offset when the character
\* is reached with at most one wrap and with a failure at the second wrap
\* otherwise; the rollover loop stops after at most 5 additions
C16_LoopsStop == <>(call.status # "run") /\ []WithinLimits

C16_Witness ==
  /\ pc = "loop"
  /\ call.fn = "get_easting_from_char"
  /\ call.c = "I"
  /\ call.set = 1
  /\ call.status = "panic"
  /\ call.steps = 48

(***************************************************************************)
(* Claims about the Utm values the program produces.                       *)
(***************************************************************************)
ValidUtm(u) ==
  /\ u.zone \in 0..60
  /\ u.band \in BandLetters
  /\ u.zone = 0 => u.ups

\* C17: every Utm produced, by from_coord for any coordinate and by a
\* successful from_string for any input, has its zone in 0..60 and its band
\* among the 20 band letters, and has zone 0 only when ups is true
C17_ValidUtm ==
  /\ pc = "utm" => ValidUtm(utm)
  /\ (pc = "parsed" /\ res.kind = "ok") => ValidUtm(res.utm)

\* C18: from_coord sets ups exactly when lat < -80 or lat >= 84; a Utm
\* with ups set has zone 0, easting 0 and northing 0, and a Utm without it
\* has its zone in 1..60
C18_PolarFlag ==
  pc = "utm" =>
    /\ utm.ups <=> (coord.lat < -80 * Den \/ coord.lat >= 84 * Den)
    /\ utm.ups => (utm.zone = 0 /\ utm.easting = Zero /\ utm.northing = Zero)
    /\ ~utm.ups => utm.zone \in 1..60

C18_Witness ==
  /\ pc = "utm"
  /\ coord.lat = 84 * Den
  /\ coord.lon = 9 * Den
  /\ utm.ups
  /\ utm.zone = 0
  /\ utm.easting = Zero

(***************************************************************************)
(* Claims about the math helpers.                                          *)
(***************************************************************************)
\* C20: for every a and every b # 0, math::fmod(a, b) is the C fmod
\* a - b * trunc(a / b): it has the sign of a, is smaller in magnitude than
\* b, and keeps its fractional part
C20_CFmod ==
  (pc = "fmod" /\ call.status = "ret") =>
    /\ call.out = call.a - call.b * Trunc(call.a, call.b)
    /\ call.out = 0 \/ ((call.out < 0) <=> (call.a < 0))
    /\ Abs(call.out) < Abs(call.b)

\* C21: angle_normalize(d) lies in (-180, 180] and differs from d by a
\* whole multiple of 360; every odd multiple of 180 goes to +180, and
\* angle_normalize(453) = 93
C21_AngleNormalize ==
  (pc = "angle" /\ call.status = "ret") =>
    /\ -180 * Den < call.out /\ call.out <= 180 * Den
    /\ (call.d - call.out) % (360 * Den) = 0
    /\ (call.d % (360 * Den) = 180 * Den) => call.out = 180 * Den
    /\ call.d = 453 * Den => call.out = 93 * Den

C21_Witness ==
  /\ pc = "angle"
  /\ call.status = "ret"
  /\ call.d = -540 * Den
  /\ call.out = 180 * Den

(***************************************************************************)
(* Claims about Datum::new.                                                *)
(***************************************************************************)
\* C22: Datum::new reads exactly the indices 0..26 of the alpha and beta
\* tables, as six consecutive slices of lengths 7, 6, 5, 4, 3, 2 that do not
\* overlap, and the indices 0..4 of the b1 table; it succeeds for all
\* tables of lengths at least 27, 27 and 5 and fails only when a table is
\* shorter; on success alp and bet hold 7 entries each, entry 0 being 0
C22_DatumTables ==
  pc = "datum" =>
    /\ \A k \in 1..Len(call.slices) :
         /\ call.slices[k].len = 8 - k
         /\ call.slices[k].o = IF k = 1 THEN 0
                               ELSE call.slices[k - 1].o + call.slices[k - 1].len
    /\ call.status = "ok" =>
         /\ call.reads_a = 0..26
         /\ call.reads_b = 0..26
         /\ call.reads_1 = 0..4
         /\ Len(call.slices) = 6
         /\ Len(call.alp) = 7 /\ call.alp[1] = 0
         /\ Len(call.bet) = 7 /\ call.bet[1] = 0
    /\ call.status = "panic" => (call.la < 27 \/ call.lb < 27 \/ call.l1 < 5)
    /\ (call.la >= 27 /\ call.lb >= 27 /\ call.l1 >= 5) =>
         (call.reads_a \subseteq 0..26 /\ call.reads_b \subseteq 0..26
            /\ call.reads_1 \subseteq 0..4)

C22_Witness ==
  /\ pc = "datum"
  /\ call.status = "ok"
  /\ call.la = 27 /\ call.lb = 27 /\ call.l1 = 5
  /\ call.reads_a = 0..26
  /\ Len(call.alp) = 7

(***************************************************************************)
(* Claims relating the letters of the encoder and of the decoder.          *)
(***************************************************************************)
\* C23: for every zone 1..60, xh in 1..8 and yh >= 0, the column letter the
\* encoder writes for (zone, xh) resolves to xh * 100000 and the row letter
\* it writes for (zone, yh) resolves to (yh mod 20) * 100000, with the set
\* get_100k_set_for_zone(zone)
C23_LettersInvert ==
  (pc = "letters" /\ call.status = "ret") =>
    /\ call.east_100k = call.xh * 100000
    /\ call.north_100k = (call.yh % 20) * 100000

C23_Witness ==
  /\ pc = "letters"
  /\ call.status = "ret"
  /\ call.zone = 48
  /\ call.col = "U" /\ call.east_100k = 300000
  /\ call.yh = 34
  /\ call.row = "V" /\ call.north_100k = 1400000

\* C24: from_string keeps the precision of its input: an accepted string
\* with d digits per axis gives an Mgrs with prec = d
C24_PrecisionKept ==
  pc = "parsed" =>
    LET s == strip_spaces(inp)
    IN  (res.kind = "ok" /\ EvenDigitField(s)) => res.prec = (Len(s) - 5) \div 2

\* the eight column letters the encoder writes in a zone (mgrs.rs 44-48,
\* 116)
EncoderColumns(zone) ==
  { utmcols[((zone - 1) % 3) + 1][i] : i \in 1..8 }

\* C25: a column letter that from_string accepts in a zone is one of the
\* eight column letters the encoder writes in that zone, and its 100 km
\* offset is within 100000..800000, so the easting is below 900 km
C25_ColumnOfZone ==
  pc = "parsed" =>
    LET s == strip_spaces(inp)
    IN  (res.kind = "ok" /\ res.utm.zone \in 1..60 /\ EvenDigitField(s)) =>
          /\ s[4] \in EncoderColumns(res.utm.zone)
          /\ res.utm.easting.sq \in 1..8

====
